---- MODULE Spec2Model ----
(***************************************************************************)
(* A model of wampy's Session (wampy/session.py): the connection           *)
(* lifecycle (begin / end), the listener green thread, the inbound message *)
(* queue with its timed wait, and the pending-request bookkeeping of       *)
(* SUBSCRIBE and REGISTER; and of the EVENT message (messages/event.py).   *)
(*                                                                         *)
(* Units of execution are interleaved preemptively: _wait_for_message is   *)
(* two steps (leaving the polling loop, then q.get()), and a request is    *)
(* two steps (sending it, then recording its id), as the design asks for   *)
(* correctness under a runtime that may preempt between them.              *)
(*                                                                         *)
(* The transport, the router and MessageHandler.handle_message are not     *)
(* part of session.py.  The transport and the router are the environment   *)
(* (their outcomes are nondeterministic choices); handle_message is        *)
(* modelled from the design document.                                      *)
(***************************************************************************)
EXTENDS Integers, Sequences, FiniteSets, TLC

\* ------------------------------------------------------------- bounds
MaxReq == 2
MaxBegin == 2
MaxQueue == 1
MaxHandlers == 2
MaxEvents == 2
MaxId == 2

\* -------------------------------------------------- program constants
None == 0
DefaultTimeout == 5
GoodbyeTimeout == 2
WAMP_CODE == 36

\* the units that call into the session: the one that owns it, and another
Units == {"main", "other"}

\* the session ids a router may assign
SessionIds == {1}

VARIABLES
    connected,          \* the transport is open
    sent,               \* messages the router has received and not yet answered
    spawned,            \* listener green threads spawned so far
    alive,              \* listener green threads still running
    managed_thread,     \* Session._managed_thread (None or a listener)
    handlers,           \* handle_message units spawned and not yet run
    message_queue,      \* Session._message_queue
    request_ids,        \* Session.request_ids: request id -> entry
    subscription_map,   \* Session.subscription_map (its keys)
    registration_map,   \* Session.registration_map (its keys)
    session_id,         \* Session.session_id
    nextRid,            \* the next fresh request id
    pc,                 \* per unit: idle | wait (in the polling loop) | get (at q.get())
                        \*           | record (request sent, id not yet recorded)
    op,                 \* per unit: the operation in progress
    timeout,            \* per unit: the timeout of its current wait
    awaiting,           \* per unit: the request whose answer its recv_message call is for
    last,               \* the operation that ended last, and how
    lifecycle,          \* the session state the design names, driven by begin / end
    emitted,            \* EVENT frames the listener has received
    call_count,         \* MetaClient's call count: runs of the subscriber's handler
    event               \* an Event construction: its arguments and its outcome

vars == << connected, sent, spawned, alive, managed_thread, handlers,
           message_queue, request_ids, subscription_map, registration_map,
           session_id, nextRid, pc, op, timeout, awaiting, last, lifecycle,
           emitted, call_count, event >>

\* ------------------------------------------------------------ messages
Msg(k, i) == [kind |-> k, id |-> i]

Hello == Msg("HELLO", None)

Goodbye == Msg("GOODBYE", None)

\* what the router may answer to a message it received
Replies(m) ==
    CASE m.kind = "HELLO"     -> {Msg("WELCOME", sid) : sid \in SessionIds}
                                 \cup {Msg("ERROR", None)}
      [] m.kind = "GOODBYE"   -> {Goodbye}
      [] m.kind = "SUBSCRIBE" -> {Msg("SUBSCRIBED", m.id)}
      [] m.kind = "REGISTER"  -> {Msg("REGISTERED", m.id)}
      [] OTHER -> {}

\* send_message: json_serialize, then transport.send, which fails on a
\* transport that is not open
SendOutcomes(open) ==
    IF open THEN {"ok", "ValueError", "OtherError"} ELSE {"ValueError", "OtherError"}

RemoveAt(s, i) == SubSeq(s, 1, i - 1) \o SubSeq(s, i + 1, Len(s))

Without(f, k) == [x \in DOMAIN f \ {k} |-> f[x]]

EmptyMap == [x \in {} |-> "none"]

\* the record of an operation that ended: unit, operation, result, and for
\* end() the way _say_goodbye went
Ended(u, o, r, v) == [unit |-> u, op |-> o, res |-> r, via |-> v]

\* ------------------------------------------------- messages/event.py
\* Python values, as far as Event looks at them
PyNone == [type |-> "NoneType", items |-> << >>]

PyList(s) == [type |-> "list", items |-> s]

PyDict(s) == [type |-> "dict", items |-> s]

\* the truth value of a Python value: None and empty containers are false
Truthy(v) == v.type # "NoneType" /\ Len(v.items) > 0

\* Python's "a or b"
Or(a, b) == IF Truthy(a) THEN a ELSE b

\* no Event has been constructed
NoMessage == [raised |-> "not constructed", message |-> << >>]

\* as EventInit, without "or []" and "or {}"
EventInit_NoDefaults(wamp_code, subscription_id, publication_id, details_dict, publish_args, publish_kwargs) ==
    IF wamp_code # WAMP_CODE
    THEN [raised |-> "AssertionError", message |-> << >>]
    ELSE [raised |-> "none",
          message |-> << [int |-> WAMP_CODE], [int |-> subscription_id],
                         [int |-> publication_id], details_dict,
                         publish_args, publish_kwargs >>]

\* Event.__init__: the outcome of the construction and the message built
EventInit(wamp_code, subscription_id, publication_id, details_dict, publish_args, publish_kwargs) ==
    IF wamp_code # WAMP_CODE
    THEN [raised |-> "AssertionError", message |-> << >>]
    ELSE [raised |-> "none",
          message |-> << [int |-> WAMP_CODE], [int |-> subscription_id],
                         [int |-> publication_id], details_dict,
                         Or(publish_args, PyList(<< >>)),
                         Or(publish_kwargs, PyDict(<< >>)) >>]

\* the arguments Event is constructed with
EventCodes == {WAMP_CODE - 1, WAMP_CODE, WAMP_CODE + 1}

EventArgs == {PyNone, PyList(<< >>), PyList(<< 1 >>)}

EventKwargs == {PyNone, PyDict(<< >>), PyDict(<< 1 >>)}

EventInputs ==
    [wamp_code : EventCodes, subscription_id : 1..MaxId,
     publication_id : 1..MaxId, details_dict : {PyDict(<< >>)},
     publish_args : EventArgs, publish_kwargs : EventKwargs]

NoInput ==
    [wamp_code |-> None, subscription_id |-> None, publication_id |-> None,
     details_dict |-> PyNone, publish_args |-> PyNone,
     publish_kwargs |-> PyNone]

\* ----------------------------------------------------- Session.__init__
InitSession ==
    /\ connected = FALSE
    /\ sent = {}
    /\ spawned = 0
    /\ alive = {}
    /\ managed_thread = None
    /\ handlers = << >>
    /\ message_queue = << >>
    /\ request_ids = EmptyMap
    /\ subscription_map = {}
    /\ registration_map = {}
    /\ session_id = None
    /\ nextRid = 1
    /\ pc = [u \in Units |-> "idle"]
    /\ op = [u \in Units |-> "none"]
    /\ timeout = [u \in Units |-> None]
    /\ awaiting = [u \in Units |-> None]
    /\ last = Ended("main", "init", "ok", "-")
    /\ lifecycle = "Disconnected"
    /\ emitted = 0
    /\ call_count = 0

Init ==
    /\ InitSession
    /\ event = [args |-> NoInput, out |-> NoMessage]

\* ------------------------------------------------------------- helpers
\* unit u's operation o ends with result r
Finish(u, o, r) ==
    /\ pc' = [pc EXCEPT ![u] = "idle"]
    /\ op' = [op EXCEPT ![u] = "none"]
    /\ timeout' = [timeout EXCEPT ![u] = None]
    /\ last' = Ended(u, o, r, "-")

\* recv_message(timeout=t) is entered by unit u on behalf of operation o:
\* the unit is inside "with eventlet.Timeout(t): while q.qsize() == 0"
StartWait(u, o, t) ==
    /\ pc' = [pc EXCEPT ![u] = "wait"]
    /\ op' = [op EXCEPT ![u] = o]
    /\ timeout' = [timeout EXCEPT ![u] = t]
    /\ UNCHANGED last

\* -------------------------------------------- Session._wait_for_message
\* the loop "while q.qsize() == 0" sees a message and is left: the Timeout
\* block ends here, and q.get() is still to come
LoopExit(u) ==
    /\ pc[u] = "wait"
    /\ Len(message_queue) > 0
    /\ pc' = [pc EXCEPT ![u] = "get"]
    /\ UNCHANGED << connected, sent, spawned, alive, managed_thread,
                    handlers, message_queue, request_ids, subscription_map,
                    registration_map, session_id, nextRid, op, timeout,
                    awaiting, last, lifecycle, emitted, call_count, event >>

\* eventlet.Timeout(timeout) fires while the unit is in the loop; how much
\* time has passed is not modelled, so it may fire at any turn of the loop
TimedOut(u) == pc[u] = "wait" /\ timeout[u] > 0

\* q.get() has a message to return; on an empty queue it blocks, and no
\* Timeout is in force any more
CanGet(u) == pc[u] = "get" /\ Len(message_queue) > 0

\* ------------------------------------------------------ Session.begin
\* _connect, _listen and _say_hello up to the wait for the reply.
\* c: transport.connect() succeeded; s: how sending HELLO went.
Begin ==
    /\ pc["main"] = "idle"
    /\ spawned < MaxBegin
    /\ \E c \in BOOLEAN, s \in SendOutcomes(TRUE) :
         IF ~c
         THEN /\ Finish("main", "begin", "ConnectionError")
              /\ lifecycle' = "Disconnected"
              /\ UNCHANGED << connected, sent, spawned, alive, managed_thread >>
         ELSE /\ connected' = TRUE
              /\ spawned' = spawned + 1
              /\ alive' = alive \cup {spawned + 1}
              /\ managed_thread' = spawned + 1
              /\ IF s = "ok"
                 THEN /\ sent' = {Hello}
                      /\ StartWait("main", "begin", DefaultTimeout)
                      /\ lifecycle' = "Connecting"
                 ELSE /\ sent' = {}
                      /\ Finish("main", "begin", "SendError")
                      /\ lifecycle' = "Disconnected"
    /\ UNCHANGED << handlers, message_queue, request_ids, subscription_map,
                    registration_map, session_id, nextRid, awaiting,
                    emitted, call_count, event >>

\* -------------------------------------------------- Session._say_hello
\* recv_message() raised WampProtocolError
HelloTimedOut ==
    /\ op["main"] = "begin"
    /\ TimedOut("main")
    /\ Finish("main", "begin", "WampProtocolError")
    /\ lifecycle' = "Disconnected"
    /\ UNCHANGED << connected, sent, spawned, alive, managed_thread,
                    handlers, message_queue, request_ids, subscription_map,
                    registration_map, session_id, nextRid, awaiting,
                    emitted, call_count, event >>

\* the response is returned to the caller of begin(), whatever its kind
HelloReply ==
    /\ op["main"] = "begin"
    /\ CanGet("main")
    /\ message_queue' = Tail(message_queue)
    /\ Finish("main", "begin", "ok")
    /\ lifecycle' = "Established"
    /\ UNCHANGED << connected, sent, spawned, alive, managed_thread,
                    handlers, request_ids, subscription_map,
                    registration_map, session_id, nextRid, awaiting,
                    emitted, call_count, event >>

\* ----------------------------------- Session._disconnet and end's tail
\* d: how transport.disconnect() went; v: the way _say_goodbye went
Disconnet(d, v) ==
    IF d = "raise"
    THEN /\ last' = Ended("main", "end", "DisconnectError", v)
         /\ UNCHANGED << connected, sent, alive, subscription_map,
                         registration_map, session_id >>
    ELSE /\ connected' = FALSE
         /\ sent' = {}
         /\ IF managed_thread = None
            THEN /\ last' = Ended("main", "end", "AttributeError", v)
                 /\ UNCHANGED << alive, subscription_map, registration_map,
                                 session_id >>
            ELSE /\ alive' = alive \ {managed_thread}
                 /\ subscription_map' = {}
                 /\ registration_map' = {}
                 /\ session_id' = None
                 /\ last' = Ended("main", "end", "ok", v)

\* end() after _say_goodbye returned
EndTail(v) ==
    /\ \E d \in {"ok", "raise"} : Disconnet(d, v)
    /\ pc' = [pc EXCEPT !["main"] = "idle"]
    /\ op' = [op EXCEPT !["main"] = "none"]
    /\ timeout' = [timeout EXCEPT !["main"] = None]
    /\ lifecycle' = "Disconnected"

\* ------------------------------------------------ Session._say_goodbye
\* s: how sending GOODBYE went.  A failure is logged, no reply is awaited
\* and end() runs on; after a successful send the reply is awaited.
SayGoodbye(s) ==
    IF s = "ok"
    THEN /\ sent' = sent \cup {Goodbye}
         /\ StartWait("main", "end", GoodbyeTimeout)
         /\ lifecycle' = "Closing"
         /\ UNCHANGED << connected, alive, subscription_map,
                         registration_map, session_id >>
    ELSE EndTail("send_failed")

End ==
    /\ pc["main"] = "idle"
    /\ \E s \in SendOutcomes(connected) : SayGoodbye(s)
    /\ UNCHANGED << spawned, managed_thread, handlers, message_queue,
                    request_ids, nextRid, awaiting, emitted, call_count,
                    event >>

\* as SayGoodbyeReply, without the "except WampProtocolError: pass"
SayGoodbyeReply_Uncaught(m) ==
    IF m.kind = "GOODBYE"
    THEN EndTail("goodbye")
    ELSE /\ Finish("main", "end", "WampProtocolError")
         /\ lifecycle' = "Disconnected"
         /\ UNCHANGED << connected, sent, alive, subscription_map,
                         registration_map, session_id >>

\* the reply m was read: a kind other than GOODBYE raises WampProtocolError,
\* which is caught right there
SayGoodbyeReply(m) ==
    EndTail(IF m.kind = "GOODBYE" THEN "goodbye" ELSE "unexpected")

GoodbyeReply ==
    /\ op["main"] = "end"
    /\ CanGet("main")
    /\ message_queue' = Tail(message_queue)
    /\ SayGoodbyeReply(Head(message_queue))
    /\ UNCHANGED << spawned, managed_thread, handlers, request_ids, nextRid,
                    awaiting, emitted, call_count, event >>

\* recv_message(timeout=2) raised WampProtocolError: caught
GoodbyeTimedOut ==
    /\ op["main"] = "end"
    /\ TimedOut("main")
    /\ EndTail("timeout")
    /\ UNCHANGED << spawned, managed_thread, handlers, message_queue,
                    request_ids, nextRid, awaiting, emitted, call_count,
                    event >>

\* ------------------------------------------------ Session.recv_message
\* unit u calls recv_message(); r is the pending request whose answer the
\* caller is after (None: none in particular).  recv_message is not told r.
Recv(u, r) ==
    /\ pc[u] = "idle"
    /\ r \in DOMAIN request_ids \cup {None}
    /\ StartWait(u, "recv", DefaultTimeout)
    /\ awaiting' = [awaiting EXCEPT ![u] = r]
    /\ UNCHANGED << connected, sent, spawned, alive, managed_thread,
                    handlers, message_queue, request_ids, subscription_map,
                    registration_map, session_id, nextRid, lifecycle,
                    emitted, call_count, event >>

\* eventlet.Timeout is turned into WampProtocolError; nothing else is done
RecvTimedOut(u) ==
    /\ op[u] = "recv"
    /\ TimedOut(u)
    /\ Finish(u, "recv", "WampProtocolError")
    /\ awaiting' = [awaiting EXCEPT ![u] = None]
    /\ UNCHANGED << connected, sent, spawned, alive, managed_thread,
                    handlers, message_queue, request_ids, subscription_map,
                    registration_map, session_id, nextRid, lifecycle,
                    emitted, call_count, event >>

\* q.get() returns the head of the queue, whatever it answers
RecvReply(u) ==
    /\ op[u] = "recv"
    /\ CanGet(u)
    /\ message_queue' = Tail(message_queue)
    /\ Finish(u, "recv", "ok")
    /\ awaiting' = [awaiting EXCEPT ![u] = None]
    /\ UNCHANGED << connected, sent, spawned, alive, managed_thread,
                    handlers, request_ids, subscription_map,
                    registration_map, session_id, nextRid, lifecycle,
                    emitted, call_count, event >>

\* --------------- Session._subscribe_to_topic, Session._register_procedure
\* the request whose message the owning unit has sent and not yet recorded:
\* the local variable request_id
request_id == nextRid - 1

\* the message is built, which draws the request id, and sent; kind is the
\* message's kind, s how sending went and e the error the method raises on
\* a failed send.  The entry of request_ids is still to be written.
SendRequest(kind, o, s, e) ==
    /\ nextRid' = nextRid + 1
    /\ IF s = "ok"
       THEN /\ sent' = sent \cup {Msg(kind, nextRid)}
            /\ pc' = [pc EXCEPT !["main"] = "record"]
            /\ op' = [op EXCEPT !["main"] = o]
            /\ UNCHANGED last
       ELSE /\ last' = Ended("main", o, e, "-")
            /\ UNCHANGED << sent, pc, op >>

\* self.request_ids[request_id] = ..., the method's last statement
RecordRequest(o) ==
    /\ request_ids' = (request_id :> o) @@ request_ids
    /\ Finish("main", o, "ok")
    /\ UNCHANGED << connected, sent, spawned, alive, managed_thread,
                    handlers, message_queue, subscription_map,
                    registration_map, session_id, nextRid, awaiting,
                    lifecycle, emitted, call_count, event >>

\* ------------------------------------------ Session._subscribe_to_topic
\* any error of send_message is turned into WampProtocolError
SubscribeToTopic(s) == SendRequest("SUBSCRIBE", "subscribe", s, "WampProtocolError")

Subscribe ==
    /\ pc["main"] = "idle"
    /\ nextRid <= MaxReq
    /\ \E s \in SendOutcomes(connected) : SubscribeToTopic(s)
    /\ UNCHANGED << connected, spawned, alive, managed_thread, handlers,
                    message_queue, request_ids, subscription_map,
                    registration_map, session_id, timeout, awaiting,
                    lifecycle, emitted, call_count, event >>

SubscribeRecord ==
    /\ pc["main"] = "record"
    /\ op["main"] = "subscribe"
    /\ RecordRequest("subscribe")

\* ------------------------------------------ Session._register_procedure
\* as RegisterProcedure, with "except Exception" for "except ValueError"
RegisterProcedure_CatchAll(s) ==
    SendRequest("REGISTER", "register", s, "WampProtocolError")

\* only ValueError is turned into WampProtocolError; any other error of
\* send_message leaves the method as it is
RegisterProcedure(s) ==
    SendRequest("REGISTER", "register", s,
                IF s = "ValueError" THEN "WampProtocolError" ELSE s)

Register ==
    /\ pc["main"] = "idle"
    /\ nextRid <= MaxReq
    /\ \E s \in SendOutcomes(connected) : RegisterProcedure(s)
    /\ UNCHANGED << connected, spawned, alive, managed_thread, handlers,
                    message_queue, request_ids, subscription_map,
                    registration_map, session_id, timeout, awaiting,
                    lifecycle, emitted, call_count, event >>

RegisterRecord ==
    /\ pc["main"] = "record"
    /\ op["main"] = "register"
    /\ RecordRequest("register")

\* the messages that handle_message puts on the session's queue: all but
\* EVENT, which goes to the subscriber's handler
Queued(m) == m.kind # "EVENT"

\* ------------------------------------- MessageHandler.handle_message
\* WELCOME stores the session id; a response to a pending request resolves
\* its entry; WELCOME, GOODBYE and the responses go to the queue; an EVENT
\* for a known subscription runs the subscriber's handler, which counts it
HandleMessage(m) ==
    /\ message_queue' = IF Queued(m) THEN Append(message_queue, m)
                        ELSE message_queue
    /\ session_id' = IF m.kind = "WELCOME" THEN m.id ELSE session_id
    /\ request_ids' = IF m.kind \in {"SUBSCRIBED", "REGISTERED", "ERROR"}
                      THEN Without(request_ids, m.id) ELSE request_ids
    /\ subscription_map' =
         IF m.kind = "SUBSCRIBED" /\ m.id \in DOMAIN request_ids
         THEN subscription_map \cup {m.id} ELSE subscription_map
    /\ registration_map' =
         IF m.kind = "REGISTERED" /\ m.id \in DOMAIN request_ids
         THEN registration_map \cup {m.id} ELSE registration_map
    /\ call_count' = IF m.kind = "EVENT" /\ m.id \in subscription_map
                     THEN call_count + 1 ELSE call_count

\* ----------------------------------- Session._listen.connection_handler
\* the messages received and not yet taken from the queue: the spawned
\* handlers that will put theirs on the queue, and the queue itself
InFlight == Len(SelectSeq(handlers, Queued)) + Len(message_queue)


\* as Spawn, with two handler units spawned for the one frame
Spawn_Twice(r) ==
    /\ handlers' = handlers \o << r, r >>
    /\ UNCHANGED << message_queue, request_ids, subscription_map,
                    registration_map, session_id, call_count >>

\* as Spawn, with the handler called on the listener's own unit
Spawn_Inline(r) ==
    /\ HandleMessage(r)
    /\ UNCHANGED handlers

\* the listener's step "eventlet.spawn(handler)" for the message r: the
\* handler is a unit of its own, and nothing of it has run yet
Spawn(r) ==
    /\ handlers' = Append(handlers, r)
    /\ UNCHANGED << message_queue, request_ids, subscription_map,
                    registration_map, session_id, call_count >>

\* one turn of the loop of listener l: connection.receive() returns the
\* frame of r, the router's answer to m, and a handler unit is spawned for it
ListenerReceive(l, m, r) ==
    /\ l \in alive
    /\ connected
    /\ m \in sent
    /\ r \in Replies(m)
    /\ Len(handlers) < MaxHandlers
    /\ InFlight < MaxQueue
    /\ sent' = sent \ {m}
    /\ Spawn(r)
    /\ UNCHANGED << connected, spawned, alive, managed_thread, nextRid, pc,
                    op, timeout, awaiting, last, lifecycle, emitted, event >>

\* connection.receive() returns the frame of an EVENT the router emits for
\* the subscription s
ListenerReceiveEvent(l, s) ==
    /\ l \in alive
    /\ connected
    /\ s \in subscription_map
    /\ emitted < MaxEvents
    /\ Len(handlers) < MaxHandlers
    /\ emitted' = emitted + 1
    /\ Spawn(Msg("EVENT", s))
    /\ UNCHANGED << connected, sent, spawned, alive, managed_thread, nextRid,
                    pc, op, timeout, awaiting, last, lifecycle, event >>

\* as EmptyFrame, with the loop left on a frame that is empty
EmptyFrame_Breaks(l) == alive' = alive \ {l}

\* "if frame:" is false: the loop takes its next turn
EmptyFrame(l) == UNCHANGED alive

\* connection.receive() returns an empty frame: nothing is spawned
ListenerReceiveEmpty(l) ==
    /\ l \in alive
    /\ connected
    /\ EmptyFrame(l)
    /\ UNCHANGED << connected, sent, spawned, managed_thread, handlers,
                    message_queue, request_ids, subscription_map,
                    registration_map, session_id, nextRid, pc, op, timeout,
                    awaiting, last, lifecycle, emitted, call_count, event >>

\* the listener l leaves its loop
Break(l) == alive' = alive \ {l}

\* connection.receive() raises ConnectionError on a closed transport: break
ListenerExit(l) ==
    /\ l \in alive
    /\ ~connected
    /\ Break(l)
    /\ UNCHANGED << connected, sent, spawned, managed_thread, handlers,
                    message_queue, request_ids, subscription_map,
                    registration_map, session_id, nextRid, pc, op, timeout,
                    awaiting, last, lifecycle, emitted, call_count, event >>

\* connection.receive() raises WampProtocolError on what the router sent in
\* answer to m, on an open transport: break
ListenerProtocolError(l, m) ==
    /\ l \in alive
    /\ connected
    /\ m \in sent
    /\ sent' = sent \ {m}
    /\ Break(l)
    /\ UNCHANGED << connected, spawned, managed_thread, handlers,
                    message_queue, request_ids, subscription_map,
                    registration_map, session_id, nextRid, pc, op, timeout,
                    awaiting, last, lifecycle, emitted, call_count, event >>

RunHandler(i) ==
    /\ i \in 1..Len(handlers)
    /\ handlers' = RemoveAt(handlers, i)
    /\ HandleMessage(handlers[i])
    /\ UNCHANGED << connected, sent, spawned, alive, managed_thread,
                    nextRid, pc, op, timeout, awaiting, last, lifecycle,
                    emitted, event >>

\* --------------------------------------------------------- environment
\* the connection drops
ConnectionDrop ==
    /\ connected
    /\ connected' = FALSE
    /\ sent' = {}
    /\ UNCHANGED << spawned, alive, managed_thread, handlers, message_queue,
                    request_ids, subscription_map, registration_map,
                    session_id, nextRid, pc, op, timeout, awaiting, last,
                    lifecycle, emitted, call_count, event >>

\* ------------------------------------------------------- specifications
\* the units the session itself runs: listeners and handlers
Background ==
    \/ \E l \in alive, m \in sent : \E r \in Replies(m) : ListenerReceive(l, m, r)
    \/ \E l \in alive : ListenerReceiveEmpty(l)
    \/ \E l \in alive : ListenerExit(l)
    \/ \E l \in alive, m \in sent : ListenerProtocolError(l, m)
    \/ \E i \in 1..Len(handlers) : RunHandler(i)
    \/ ConnectionDrop

\* begin() and end(), called by the owning unit
Lifecycle ==
    \/ Begin
    \/ HelloTimedOut
    \/ HelloReply
    \/ End
    \/ GoodbyeReply
    \/ GoodbyeTimedOut
    \/ LoopExit("main")

\* requests and their waits, by the owning unit
Requests ==
    \/ Subscribe
    \/ SubscribeRecord
    \/ Register
    \/ RegisterRecord
    \/ \E r \in 0..MaxReq : Recv("main", r)
    \/ RecvTimedOut("main")
    \/ RecvReply("main")

\* recv_message called by another unit
Waiter ==
    \/ Recv("other", None)
    \/ LoopExit("other")
    \/ RecvTimedOut("other")
    \/ RecvReply("other")

\* one unit drives the session through its whole life, requests included
Next == Lifecycle \/ Requests \/ Background

Spec == Init /\ [][Next]_vars

\* the lifecycle alone
NextLifecycle == Lifecycle \/ Background

SpecLifecycle == Init /\ [][NextLifecycle]_vars

\* two units wait on the queue of one session
NextWaiters ==
    \/ Begin
    \/ HelloTimedOut
    \/ HelloReply
    \/ LoopExit("main")
    \/ Waiter
    \/ Background

\* a unit inside recv_message keeps running, and its timer fires
WaitProgress(u) ==
    \/ LoopExit(u)
    \/ RecvTimedOut(u)
    \/ RecvReply(u)
    \/ (u = "main" /\ (HelloTimedOut \/ HelloReply))

SpecWaiters ==
    /\ Init
    /\ [][NextWaiters]_vars
    /\ \A u \in Units : WF_vars(WaitProgress(u))
    /\ WF_vars(\E i \in 1..Len(handlers) : RunHandler(i))

\* a session that subscribes, and whose subscriptions the router sends
\* events for, while its listeners run
NextListener ==
    \/ Begin
    \/ HelloTimedOut
    \/ HelloReply
    \/ LoopExit("main")
    \/ Subscribe
    \/ SubscribeRecord
    \/ \E l \in alive, m \in sent : \E r \in Replies(m) : ListenerReceive(l, m, r)
    \/ \E l \in alive, s \in subscription_map : ListenerReceiveEvent(l, s)
    \/ \E l \in alive : ListenerReceiveEmpty(l)
    \/ \E i \in 1..Len(handlers) : RunHandler(i)

\* a spawned green thread is run by eventlet's hub
SpecListener ==
    /\ Init
    /\ [][NextListener]_vars
    /\ WF_vars(\E i \in 1..Len(handlers) : RunHandler(i))

\* Event(...) is constructed, once, with arguments of any kind
InitEvent ==
    /\ InitSession
    /\ event \in [args : EventInputs, out : {NoMessage}]

EventConstruct ==
    /\ event.out = NoMessage
    /\ event' = [event EXCEPT !.out =
                   EventInit(event.args.wamp_code, event.args.subscription_id,
                             event.args.publication_id, event.args.details_dict,
                             event.args.publish_args, event.args.publish_kwargs)]
    /\ UNCHANGED << connected, sent, spawned, alive, managed_thread,
                    handlers, message_queue, request_ids, subscription_map,
                    registration_map, session_id, nextRid, pc, op, timeout,
                    awaiting, last, lifecycle, emitted, call_count >>

SpecEvent == InitEvent /\ [][EventConstruct]_vars

\* ---------------------------------------------------------------- claims
\* the owning unit's operation o has ended, and it has not started another
Done(o) == last.unit = "main" /\ last.op = o /\ pc["main"] = "idle"

\* C1: when end() has finished, whatever happened on the way, the transport
\* is closed, the listener is stopped, subscription_map and registration_map
\* are empty and session_id is nil
C1_EndAlwaysTearsDown ==
    Done("end") =>
        /\ ~connected
        /\ managed_thread \notin alive
        /\ subscription_map = {}
        /\ registration_map = {}
        /\ session_id = None

\* C2: session_id is non-nil if and only if the session is Established (no
\* call of begin() or end() being under way)
C2_SessionIdIffEstablished ==
    /\ lifecycle = "Established" => session_id # None
    /\ lifecycle = "Disconnected" => session_id = None

\* C3: a begin() that failed with ConnectionError or WampProtocolError
\* leaves the transport not connected, no listener running and session_id nil
C3_FailedBeginLeavesDisconnected ==
    (Done("begin") /\ last.res \in {"ConnectionError", "WampProtocolError"}) =>
        /\ ~connected
        /\ alive = {}
        /\ session_id = None

\* C4: begin() returns successfully only when the message it read after
\* HELLO is WELCOME
C4_BeginSucceedsOnlyOnWelcome ==
    [][(op["main"] = "begin" /\ lifecycle' = "Established")
         => Head(message_queue).kind = "WELCOME"]_vars

\* C5: when the wait for the answer to a pending request times out, the
\* request's id is no longer in request_ids
C5_TimeoutRemovesPending ==
    [][\A u \in Units :
         (op[u] = "recv" /\ last' = Ended(u, "recv", "WampProtocolError", "-"))
           => awaiting[u] \notin DOMAIN request_ids']_vars

\* C6: a response carrying request id R is delivered only to the unit that
\* waits for the answer to request R
C6_ResponseReachesItsWaiter ==
    [][\A u \in Units :
         (/\ op[u] = "recv"
          /\ awaiting[u] # None
          /\ last' = Ended(u, "recv", "ok", "-")
          /\ Head(message_queue).kind \in {"SUBSCRIBED", "REGISTERED"})
           => Head(message_queue).id = awaiting[u]]_vars

\* C7: every call of recv_message ends, by returning a message or by
\* failing with WampProtocolError, also with two units on the same queue
C7_RecvTerminates ==
    \A u \in Units : (pc[u] # "idle") ~> (pc[u] = "idle")

\* C8: at most one listener is alive, and exactly one while the session is
\* Established
C8_OneListener ==
    /\ Cardinality(alive) <= 1
    /\ lifecycle = "Established" => Cardinality(alive) = 1

\* C9: end() never raises, in whatever state it is called
C9_EndNeverRaises ==
    Done("end") => last.res = "ok"

\* what _disconnet can end with: transport.disconnect() was called
DisconnetResults == {"ok", "DisconnectError", "AttributeError"}

\* C10: no failure of the GOODBYE exchange leaves end(): a failed send is
\* swallowed and no reply is awaited; after a send the reply is awaited with
\* timeout 2, and a timeout or a reply of another kind is tolerated; in all
\* these cases end() goes on to _disconnet
C10_GoodbyeFailuresAbsorbed ==
    [][/\ (op["main"] = "none" /\ op'["main"] = "end")
            => /\ Goodbye \in sent'
               /\ timeout'["main"] = GoodbyeTimeout
       /\ (op["main"] = "end" /\ op'["main"] # "end")
            => /\ last'.op = "end"
               /\ last'.via \in {"timeout", "unexpected", "goodbye"}
               /\ last'.res \in DisconnetResults
       /\ last'.op = "end" => last'.res \in DisconnetResults]_vars

\* a reply that is not GOODBYE was read, and end() completed all the same
C10_Witness ==
    Done("end") /\ last.via = "unexpected" /\ last.res = "ok"


\* C11: the listener only spawns: the step that receives a frame adds one
\* handler unit after those still pending and runs nothing of it, a message
\* is delivered only by the step of a handler unit, and while a handler is
\* pending the listener can receive the next frame and any pending handler
\* can run, whatever was spawned before it
C11_ListenerOnlySpawns ==
    [][/\ Len(handlers') > Len(handlers) =>
            /\ handlers' = Append(handlers, handlers'[Len(handlers')])
            /\ UNCHANGED << message_queue, request_ids, subscription_map,
                            registration_map, session_id, call_count >>
       /\ (Len(message_queue') > Len(message_queue) \/ call_count' # call_count) =>
            Len(handlers') = Len(handlers) - 1
       /\ (Len(handlers) \in 1..(MaxHandlers - 1) /\ connected /\ alive # {}
             /\ subscription_map # {} /\ emitted < MaxEvents) =>
            ENABLED (\E l \in alive, s \in subscription_map : ListenerReceiveEvent(l, s))
       /\ \A i \in 1..Len(handlers) : ENABLED RunHandler(i)]_vars

\* the handler of an EVENT was spawned while the handler of an earlier
\* message has not run yet, and it can run first
C11_Witness ==
    /\ Len(handlers) = 2
    /\ handlers[2].kind = "EVENT"
    /\ handlers[1] # handlers[2]
    /\ ENABLED RunHandler(2)

\* C12: the session becomes Established only from Connecting, and a
\* SUBSCRIBE or REGISTER message is sent only while the session is
\* Established
C12_RequestsOnlyWhenEstablished ==
    [][/\ (lifecycle' = "Established" /\ lifecycle # "Established")
            => lifecycle = "Connecting"
       /\ (\E m \in sent' \ sent : m.kind \in {"SUBSCRIBE", "REGISTER"})
            => lifecycle = "Established"]_vars

\* C13: once the listener that was started has stopped, no SUBSCRIBE or
\* REGISTER message is sent any more, and recv_message, _subscribe_to_topic
\* and _register_procedure do not end successfully
C13_FailsOnceListenerStopped ==
    [][(alive = {} /\ spawned > 0) =>
         /\ ~(\E m \in sent' \ sent : m.kind \in {"SUBSCRIBE", "REGISTER"})
         /\ (last' # last /\ last'.op \in {"recv", "subscribe", "register"})
              => last'.res # "ok"]_vars

\* the handlers of EVENT messages spawned and not yet run
EventsPending == Len(SelectSeq(handlers, LAMBDA m : m.kind = "EVENT"))

C15_ResponseAfterPendingRecorded ==
    [][(Len(handlers') < Len(handlers) /\ Len(message_queue') > Len(message_queue)) =>
         LET m == message_queue'[Len(message_queue')]
         IN  m.kind \in {"SUBSCRIBED", "REGISTERED"} => m.id \in DOMAIN request_ids]_vars

\* C16: after an end() that completed, the inbound message queue is empty
C16_QueueEmptyAfterEnd ==
    (Done("end") /\ last.res = "ok") => message_queue = << >>

\* C17: when sending the SUBSCRIBE or REGISTER message fails, the method
\* fails with WampProtocolError and request_ids, subscription_map and
\* registration_map are left as they were; an entry is added to request_ids
\* only by the unit whose message was sent
C17_FailedSendRaisesProtocolError ==
    [][/\ (nextRid' # nextRid /\ sent' = sent) =>
            /\ last'.op \in {"subscribe", "register"}
            /\ last'.res = "WampProtocolError"
            /\ UNCHANGED << request_ids, subscription_map, registration_map >>
       /\ (DOMAIN request_ids' \ DOMAIN request_ids # {}) => pc["main"] = "record"]_vars

\* C18: after an end() that completed, request_ids is empty
C18_NoPendingAfterEnd ==
    (Done("end") /\ last.res = "ok") => request_ids = EmptyMap

\* the ways _say_goodbye can go
Vias == {"send_failed", "timeout", "unexpected", "goodbye"}

\* C19: a listener leaves its loop in a step if and only if the step is
\* one of its exits: connection.receive() raised ConnectionError or
\* WampProtocolError, or end() killed it; no other step (an empty frame, a
\* handler that runs or stays pending, a wait that times out or returns an
\* ERROR) stops a listener, and on a closed transport the exit is open
C19_ListenerExitsOnlyOnExitCondition ==
    [][\A l \in alive :
         /\ l \notin alive' <=>
               \/ ListenerExit(l)
               \/ \E m \in sent : ListenerProtocolError(l, m)
               \/ (l = managed_thread /\ \E v \in Vias : Disconnet("ok", v))
         /\ ~connected => ENABLED ListenerExit(l)]_vars

\* the wait of begin() has timed out, a handler is still pending, and the
\* listener runs on
C19_Witness ==
    /\ Done("begin")
    /\ last.res = "WampProtocolError"
    /\ Len(handlers) > 0
    /\ connected
    /\ managed_thread \in alive

\* C20: constructing an Event succeeds exactly when the code given is 36,
\* and fails the assertion otherwise; the message built is the six-element
\* list [36, subscription id, publication id, details, args, kwargs], where
\* args is the empty list and kwargs the empty map when None was given
C20_EventShape ==
    event.out # NoMessage =>
        LET a == event.args
            out == event.out
        IN  /\ out.raised = "none" <=> a.wamp_code = 36
            /\ a.wamp_code # 36 => out.raised = "AssertionError"
            /\ out.raised = "none" =>
                  /\ Len(out.message) = 6
                  /\ out.message[1] = [int |-> 36]
                  /\ out.message[2] = [int |-> a.subscription_id]
                  /\ out.message[3] = [int |-> a.publication_id]
                  /\ out.message[4] = a.details_dict
                  /\ out.message[5] = IF a.publish_args = PyNone
                                      THEN PyList(<< >>) ELSE a.publish_args
                  /\ out.message[6] = IF a.publish_kwargs = PyNone
                                      THEN PyDict(<< >>) ELSE a.publish_kwargs

\* an Event was constructed with code 36 and neither args nor kwargs
C20_Witness ==
    /\ event.out.raised = "none"
    /\ event.args.publish_args = PyNone
    /\ event.args.publish_kwargs = PyNone
    /\ event.out.message[5] = PyList(<< >>)

====
